---- MODULE Spec2Model ----
(***************************************************************************)
(* Model of ta_lib/mmx/eda/visualization_utils.py: the table query         *)
(* pipeline (validate, filter, aggregate, derive) behind the three static  *)
(* plot functions and the three Dash dashboards.                           *)
(*                                                                         *)
(* A DataFrame is a sequence of rows, a row a record from column name to   *)
(* value.  Floats are extended rationals (a number n/d, nan, +inf, -inf),  *)
(* so that 0/0, x/0 and missing operands behave as numpy's do.  Dates are  *)
(* floats too: a day number, or nan for NaT.                               *)
(***************************************************************************)
EXTENDS Integers, Sequences, FiniteSets, Bags, TLC

VARIABLES
    schema,     \* which of the three kinds of Observation Table the caller holds
    original,   \* the Observation Table as the caller built it (history)
    data,       \* the caller's Observation Table
    app,        \* the running dashboard and its widgets' values, or NoApp
    call,       \* the static-plot call that has just run, or NoCall
    temp,       \* the working table of the last call or callback firing
    printed,    \* what the last call printed
    outcome     \* how the last call ended: "fig", "None", or the exception raised

vars == <<schema, original, data, app, call, temp, printed, outcome>>

\* Longest Observation Table the caller builds.
MaxRows == 2

----------------------------------------------------------------------------
(* Values *)

None == "<None>"

\* A float is the real number n/d + (the sum of the bag e of exponential terms), or
\* nan, +inf or -inf.  The term <<l, x>> is exp applied l times to the integer x.
Num(n) == [k |-> "num", n |-> n, d |-> 1, e |-> EmptyBag]
NaN == [k |-> "nan", n |-> 0, d |-> 1, e |-> EmptyBag]
NaT == NaN
PosInf == [k |-> "posinf", n |-> 0, d |-> 1, e |-> EmptyBag]
NegInf == [k |-> "neginf", n |-> 0, d |-> 1, e |-> EmptyBag]

Abs(i) == IF i < 0 THEN -i ELSE i

RECURSIVE Gcd(_, _)
Gcd(a, b) == IF b = 0 THEN a ELSE Gcd(b, a % b)

\* The rational n/d (d # 0) in lowest terms with a positive denominator.
Frac(n, d) ==
    LET g == Gcd(Abs(n), Abs(d))
        s == IF d < 0 THEN -1 ELSE 1
    IN  [k |-> "num", n |-> (s * n) \div g, d |-> (s * d) \div g, e |-> EmptyBag]

IsNum(x) == x.k = "num"

\* Series / Series, elementwise, as numpy divides floats.
TrueDiv(a, b) ==
    IF ~IsNum(a) \/ ~IsNum(b) THEN NaN
    ELSE IF b.n = 0
         THEN IF a.n = 0 THEN NaN ELSE IF a.n > 0 THEN PosInf ELSE NegInf
         ELSE Frac(a.n * b.d, a.d * b.n)

\* FillNa0 left out: a missing value stays missing.
KeepNa(x) == x

\* Series.fillna(0)
FillNa0(x) == IF x.k = "nan" THEN Num(0) ELSE x

\* ReplaceInf0 with -inf forgotten.
ReplacePosInf0(x) == IF x.k = "posinf" THEN Num(0) ELSE x

\* Series.replace([np.inf, -np.inf], 0)
ReplaceInf0(x) == IF x.k \in {"posinf", "neginf"} THEN Num(0) ELSE x

\* a + b on numbers
Plus(a, b) == [Frac(a.n * b.d + b.n * a.d, a.d * b.d) EXCEPT !.e = a.e (+) b.e]

\* np.exp on a table entry: exp(0) is 1, exp(x) is a term of its own otherwise,
\* and exp of a term is the term one level up.
Exp(x) ==
    IF ~IsNum(x) THEN x
    ELSE IF x.e = EmptyBag
         THEN IF x.n = 0 THEN Num(1)
              ELSE [Num(0) EXCEPT !.e = SetToBag({<<1, x.n>>})]
         ELSE LET t == CHOOSE t \in BagToSet(x.e) : TRUE
              IN  [Num(0) EXCEPT !.e = SetToBag({<<t[1] + 1, t[2]>>})]

\* Series >= scalar and Series <= scalar: False wherever an operand is missing.
Ge(a, b) == IsNum(a) /\ IsNum(b) /\ a.n * b.d >= b.n * a.d
Le(a, b) == IsNum(a) /\ IsNum(b) /\ a.n * b.d <= b.n * a.d

\* str.lower on the texts the model uses.
Lower(s) ==
    CASE s = "TV" -> "tv"
      [] s = "Radio" -> "radio"
      [] s = "RADIO" -> "radio"
      [] s = "Print" -> "print"
      [] s = "Imp" -> "imp"
      [] s = "IMP" -> "imp"
      [] s = "Clicks" -> "clicks"
      [] s = "Views" -> "views"
      [] s = "Impressions" -> "impressions"
      [] OTHER -> s

----------------------------------------------------------------------------
(* DataFrame helpers *)

Column(df, col) == [i \in 1..Len(df) |-> df[i][col]]

RECURSIVE UniqueFrom(_, _, _)
UniqueFrom(s, i, acc) ==
    IF i > Len(s) THEN acc
    ELSE UniqueFrom(s, i + 1,
            IF \E j \in 1..Len(acc) : acc[j] = s[i] THEN acc ELSE Append(acc, s[i]))

\* Series.unique(): the distinct values in order of first appearance.
Unique(s) == UniqueFrom(s, 1, <<>>)

Elems(s) == {s[i] : i \in 1..Len(s)}

\* map(str.lower, values)
MapLower(s) == [i \in 1..Len(s) |-> Lower(s[i])]

\* value.lower() not in map(str.lower, values)
NotAvailable(value, values) == Lower(value) \notin Elems(MapLower(values))

\* Series.min() and Series.max() of a date column: missing values are skipped,
\* and the result is missing when there is nothing else.
SeriesMin(s) ==
    LET present == {x \in Elems(s) : IsNum(x)}
    IN  IF present = {} THEN NaT
        ELSE CHOOSE x \in present : \A y \in present : Le(x, y)

SeriesMax(s) ==
    LET present == {x \in Elems(s) : IsNum(x)}
    IN  IF present = {} THEN NaT
        ELSE CHOOSE x \in present : \A y \in present : Ge(x, y)

\* BooleanIndex handing out a view of the caller's frame in place of a new frame.
BooleanIndexView(df, mask) ==
    LET idx == SelectSeq([i \in 1..Len(df) |-> i], LAMBDA i : mask[i])
    IN  [rows |-> [j \in 1..Len(idx) |-> df[idx[j]]], own |-> FALSE]

\* df[mask]: the rows where the boolean mask is True, as a new frame; own says
\* that the frame is an object of its own and not the caller's.
BooleanIndex(df, mask) ==
    LET idx == SelectSeq([i \in 1..Len(df) |-> i], LAMBDA i : mask[i])
    IN  [rows |-> [j \in 1..Len(idx) |-> df[idx[j]]], own |-> TRUE]

\* The caller's table once the function is done with the frame it assigned columns to.
CallerTable(df, frame) == IF frame.own THEN df ELSE frame.rows

\* temp["cost_per_act"] = temp["Spend"] / temp["Activity"]
\* temp["cost_per_act"] = temp["cost_per_act"].fillna(0).replace([np.inf, -np.inf], 0)
CostPerAct(row) == ReplaceInf0(FillNa0(TrueDiv(row.Spend, row.Activity)))

AssignCostPerAct(frame) ==
    [frame EXCEPT !.rows =
        [i \in 1..Len(frame.rows) |->
            frame.rows[i] @@ ("cost_per_act" :> CostPerAct(frame.rows[i]))]]

\* data = act_vs_preds, the copy forgotten: the caller's own frame.
DataFrameAlias(df) == [rows |-> df, own |-> FALSE]

\* data = act_vs_preds.copy(): a frame of its own holding the same rows.
DataFrameCopy(df) == [rows |-> df, own |-> TRUE]

\* data["actuals"] = np.exp(data["actuals"]); data["preds"] = np.exp(data["preds"])
AssignExp(frame) ==
    [frame EXCEPT !.rows =
        [i \in 1..Len(frame.rows) |->
            [frame.rows[i] EXCEPT !.actuals = Exp(@), !.preds = Exp(@)]]]

----------------------------------------------------------------------------
(* groupby(keys).sum().reset_index() *)

NumericColumns == {"Spend", "Activity", "value", "actuals", "preds"}
DateColumns == {"date"}

\* Python's order of the texts that occur in key columns.
TextOrder ==
    <<"2021Q1", "2021Q2", "Clicks", "Imp", "Radio", "TV",
      "radio_clicks", "tv_clicks", "tv_imp">>

Rank(s) == CHOOSE i \in 1..Len(TextOrder) : TextOrder[i] = s

ValueLess(col, a, b) ==
    IF col \in DateColumns THEN a.n * b.d < b.n * a.d ELSE Rank(a) < Rank(b)

RECURSIVE KeyLessFrom(_, _, _, _)
KeyLessFrom(keys, i, k1, k2) ==
    IF i > Len(keys) THEN FALSE
    ELSE IF k1[i] = k2[i] THEN KeyLessFrom(keys, i + 1, k1, k2)
    ELSE ValueLess(keys[i], k1[i], k2[i])

KeyOf(row, keys) == [i \in 1..Len(keys) |-> row[keys[i]]]

\* groupby drops the rows that miss a key value (dropna=True).
HasKey(row, keys) ==
    \A i \in 1..Len(keys) : keys[i] \in DateColumns => IsNum(row[keys[i]])

RECURSIVE SortKeys(_, _)
SortKeys(K, keys) ==
    IF K = {} THEN <<>>
    ELSE LET m == CHOOSE k \in K : \A o \in K \ {k} : KeyLessFrom(keys, 1, k, o)
         IN  <<m>> \o SortKeys(K \ {m}, keys)

\* first() in place of sum(): the group keeps its first row's value.
SumKeepFirst(s) == IF s = <<>> THEN Num(0) ELSE FillNa0(Head(s))

\* Series.sum() of a numeric column: missing values are skipped, nothing sums to 0.
RECURSIVE SumSkipNa(_)
SumSkipNa(s) ==
    IF s = <<>> THEN Num(0)
    ELSE IF Head(s).k = "nan" THEN SumSkipNa(Tail(s))
    ELSE Plus(Head(s), SumSkipNa(Tail(s)))

\* Series.sum() of a column of texts joins them.
RECURSIVE SumText(_)
SumText(s) == IF s = <<>> THEN "" ELSE Head(s) \o SumText(Tail(s))

\* One row per key in key order: the key columns as they are, every other column summed.
GroupBySum(df, keys) ==
    LET kept == SelectSeq(df, LAMBDA r : HasKey(r, keys))
        sorted == SortKeys({KeyOf(kept[i], keys) : i \in 1..Len(kept)}, keys)
    IN  [g \in 1..Len(sorted) |->
            LET members == SelectSeq(kept, LAMBDA r : KeyOf(r, keys) = sorted[g])
            IN  [c \in DOMAIN members[1] |->
                    IF \E i \in 1..Len(keys) : keys[i] = c THEN members[1][c]
                    ELSE IF c \in NumericColumns THEN SumSkipNa(Column(members, c))
                    ELSE SumText(Column(members, c))]]

----------------------------------------------------------------------------
(* The Observation Tables the caller builds *)

QuarterlyRow(q, vd, g, v) ==
    [YEAR_QTR |-> q, variable_description |-> vd, geo |-> g, value |-> v]

QuarterlyRows ==
    { QuarterlyRow("2021Q1", "TV", "N", Num(10)),
      QuarterlyRow("2021Q1", "TV", "S", Num(5)),
      QuarterlyRow("2021Q2", "TV", "N", Num(7)),
      QuarterlyRow("2021Q2", "TV", "S", NaN),
      QuarterlyRow("2021Q1", "Radio", "N", Num(3)),
      QuarterlyRow("2021Q2", "Radio", "S", Num(4)) }

ActVsPredsRow(d, g, a, p) == [date |-> d, geo |-> g, actuals |-> a, preds |-> p]

ActVsPredsRows ==
    { ActVsPredsRow(Num(1), "N", Num(0), Num(1)),
      ActVsPredsRow(Num(1), "S", Num(1), Num(1)),
      ActVsPredsRow(Num(2), "N", Num(2), Num(1)),
      ActVsPredsRow(Num(2), "S", Num(1), Num(0)),
      ActVsPredsRow(Num(1), "N", Num(3), Num(2)),
      ActVsPredsRow(Num(2), "S", Num(-1), Num(2)) }

SpendRow(d, root, vd, at, g, s, a) ==
    [date |-> d, variable_activity_root |-> root, variable_description |-> vd,
     activity_type |-> at, geo |-> g, Spend |-> s, Activity |-> a]

SpendRows ==
    { SpendRow(Num(1), "tv_imp", "TV", "Imp", "N", Num(10), Num(2)),
      SpendRow(Num(1), "tv_imp", "TV", "Imp", "S", Num(5), Num(3)),
      SpendRow(Num(2), "tv_imp", "TV", "Imp", "N", Num(0), Num(0)),
      SpendRow(Num(2), "tv_imp", "TV", "Imp", "S", Num(-6), Num(0)),
      SpendRow(Num(2), "tv_imp", "TV", "Imp", "N", NaN, Num(2)),
      SpendRow(Num(1), "tv_imp", "TV", "Imp", "N", Num(10), NaN),
      SpendRow(Num(1), "tv_clicks", "TV", "Clicks", "N", Num(7), Num(2)),
      SpendRow(Num(2), "radio_clicks", "Radio", "Clicks", "S", Num(9), Num(3)),
      SpendRow(NaT, "tv_imp", "TV", "Imp", "N", Num(4), Num(1)) }

Tables(rows) == UNION {[1..n -> rows] : n \in 0..MaxRows}

Columns ==
    [spend_activity |-> {"date", "variable_activity_root", "variable_description",
                         "activity_type", "geo", "Spend", "Activity"},
     quarterly_spend |-> {"YEAR_QTR", "variable_description", "geo", "value"},
     act_vs_preds |-> {"date", "geo", "actuals", "preds"}]

\* df[col] raises KeyError for a column the table does not have (None included).
KeyError(col) == col \notin Columns[schema]

----------------------------------------------------------------------------
(* Inputs of the calls *)

RequestedVariables == {"tv", "Radio", "Print"}
RequestedSpendVariables == {"TV", "tv", "Print"}
RequestedActivities == {"IMP", "Clicks", "Views"}
DateRanges == {<<>>, <<Num(1), Num(1)>>, <<Num(1), Num(2)>>, <<Num(2), Num(2)>>}
GroupArgs ==
    { [group_col |-> None, group_value |-> None],
      [group_col |-> "geo", group_value |-> "N"],
      [group_col |-> "geo", group_value |-> "all"],
      [group_col |-> "region", group_value |-> "N"],
      [group_col |-> None, group_value |-> "N"] }

IsLogs == {TRUE, FALSE}
LaunchGroupCols == {None, "geo", "region"}
PlotTypes == {"Scatter Plot", "Time Series"}

NoCall == [fn |-> None]
NoApp == [kind |-> None]

NewFrame(rows) == [rows |-> rows, own |-> TRUE]

Result(t, p, o, d) == [temp |-> t, printed |-> p, outcome |-> o, data |-> d]

----------------------------------------------------------------------------
(* get_spend_vs_activity_plot *)

\* The first line of the printed message; its second line is fixed text.
NotAvailableHeader(value) ==
    "'" \o value \o "' activity type is not available for the given variable"

\* Report with the valid values printed in the lower case they were compared in.
ReportLowered(value, values) == <<NotAvailableHeader(value)>> \o MapLower(values)

\* The report of an invalid selector: the header naming the value, then each
\* valid value on a line of its own.
Report(value, values) == <<NotAvailableHeader(value)>> \o values

\* StartDate with max() for min().
StartDateFromMax(df, date_range, date_col) ==
    IF Len(date_range) = 0 THEN SeriesMax(Column(df, date_col)) ELSE date_range[1]

StartDate(df, date_range, date_col) ==
    IF Len(date_range) = 0 THEN SeriesMin(Column(df, date_col)) ELSE date_range[1]

EndDate(df, date_range, date_col) ==
    IF Len(date_range) = 0 THEN SeriesMax(Column(df, date_col)) ELSE date_range[2]

\* df["variable_description"].str.lower() == variable_description.lower()
LowerEq(df, col, value) == [i \in 1..Len(df) |-> Lower(df[i][col]) = Lower(value)]

\* DateMask with > and < for >= and <=.
DateMaskStrict(df, date_col, start_date, end_date) ==
    [i \in 1..Len(df) |->
        /\ Ge(df[i][date_col], start_date) /\ df[i][date_col] # start_date
        /\ Le(df[i][date_col], end_date) /\ df[i][date_col] # end_date]

\* (df[date_col] >= start_date) & (df[date_col] <= end_date)
DateMask(df, date_col, start_date, end_date) ==
    [i \in 1..Len(df) |-> Ge(df[i][date_col], start_date) /\ Le(df[i][date_col], end_date)]

\* df[col] == value
EqMask(df, col, value) == [i \in 1..Len(df) |-> df[i][col] = value]

And(m1, m2) == [i \in 1..Len(m1) |-> m1[i] /\ m2[i]]

\* UniqueActivities taken from the whole activity_type column.
UniqueActivitiesOfColumn(df, variable_description) ==
    Unique(Column(df, "activity_type"))

UniqueActivities(df, variable_description) ==
    Unique(Column(BooleanIndex(df, LowerEq(df, "variable_description", variable_description)).rows,
                  "activity_type"))

SpendVsActivityMask(df, variable_description, activity_type, start_date, end_date, date_col) ==
    And(And(LowerEq(df, "variable_description", variable_description),
            LowerEq(df, "activity_type", activity_type)),
        DateMask(df, date_col, start_date, end_date))

get_spend_vs_activity_plot(df, variable_description, activity_type, date_range, date_col, group_col, group_value) ==
    LET start_date == StartDate(df, date_range, date_col)
        end_date == EndDate(df, date_range, date_col)
        variable_descriptions == Unique(Column(df, "variable_description"))
        unique_activities == UniqueActivities(df, variable_description)
        mask == SpendVsActivityMask(df, variable_description, activity_type,
                                    start_date, end_date, date_col)
    IN  IF NotAvailable(variable_description, variable_descriptions)
        THEN Result(<<>>, Report(variable_description, variable_descriptions), "None", df)
        ELSE IF NotAvailable(activity_type, unique_activities)
        THEN Result(<<>>, Report(activity_type, unique_activities), "None", df)
        ELSE IF group_value # None /\ KeyError(group_col)
        THEN Result(<<>>, <<>>, "KeyError", df)
        ELSE LET sel == IF group_value = None
                        THEN BooleanIndex(df, mask)
                        ELSE BooleanIndex(df, And(mask, EqMask(df, group_col, group_value)))
                 frame == AssignCostPerAct(sel)
             IN  Result(frame.rows, <<>>, "fig", CallerTable(df, frame))

----------------------------------------------------------------------------
(* get_quarterly_spends_plot *)

get_quarterly_spends_plot(df, group_col, spend_variable_description, group_value) ==
    LET spend_variables == Unique(Column(df, "variable_description"))
        sel == BooleanIndex(df, EqMask(df, "variable_description",
                                       spend_variable_description))
    IN  IF NotAvailable(spend_variable_description, spend_variables)
        THEN Result(<<>>, Report(spend_variable_description, spend_variables), "None", df)
        ELSE IF group_value = None
        THEN Result(GroupBySum(sel.rows, <<"YEAR_QTR">>), <<>>, "fig", df)
        ELSE IF KeyError(group_col)
        THEN Result(<<>>, <<>>, "KeyError", df)
        ELSE LET sub == BooleanIndex(sel.rows, EqMask(sel.rows, group_col, group_value))
             IN  Result(GroupBySum(sub.rows, <<"YEAR_QTR">>), <<>>, "fig", df)

----------------------------------------------------------------------------
(* get_actual_vs_predicted_plot *)

\* IsAllGroups with the "all" sentinel forgotten.
IsAllGroupsNoneOnly(group_value) == group_value = None

\* group_value == "all" or group_value is None
IsAllGroups(group_value) == group_value = "all" \/ group_value = None

get_actual_vs_predicted_plot(df, date_col, is_log, group_col, group_value) ==
    LET copy == DataFrameCopy(df)
        frame == IF is_log THEN AssignExp(copy) ELSE copy
        caller == CallerTable(df, frame)
    IN  IF IsAllGroups(group_value)
        THEN Result(GroupBySum(frame.rows, <<date_col>>), <<>>, "fig", caller)
        ELSE IF KeyError(group_col)
        \* the except clause prints, and px.line then reads filtered_df, never bound
        THEN Result(<<>>, <<"Please enter a valid group column name">>,
                    "UnboundLocalError", caller)
        ELSE Result(BooleanIndex(frame.rows, EqMask(frame.rows, group_col, group_value)).rows,
                    <<"filtered_df">>, "fig", caller)

----------------------------------------------------------------------------
(* get_spend_vs_activity_plot_interact *)

SpendKeys(date_col) ==
    <<date_col, "variable_activity_root", "variable_description", "activity_type">>

\* fig is bound in the two branches of plot_type only.
FigureOf(plot_type) == IF plot_type \in PlotTypes THEN "fig" ELSE "UnboundLocalError"

SpendCallbackMask(df, date_col, touchpoint, activity, start_date, end_date) ==
    And(And(EqMask(df, "variable_description", touchpoint),
            EqMask(df, "activity_type", activity)),
        DateMask(df, date_col, start_date, end_date))

\* spend_update_graph1 keeping the filtered rows as the table the next firing reads.
spend_update_graph1_rebinding(df, date_col, touchpoint, activity, plot_type, start_date, end_date) ==
    LET sel == BooleanIndex(df, SpendCallbackMask(df, date_col, touchpoint, activity,
                                                  start_date, end_date))
        frame == AssignCostPerAct(sel)
    IN  Result(frame.rows, <<>>, FigureOf(plot_type), sel.rows)

\* update_graph1 of the layout without a group dropdown
spend_update_graph1(df, date_col, touchpoint, activity, plot_type, start_date, end_date) ==
    LET sel == BooleanIndex(df, SpendCallbackMask(df, date_col, touchpoint, activity,
                                                  start_date, end_date))
        frame == AssignCostPerAct(sel)
    IN  Result(frame.rows, <<>>, FigureOf(plot_type), CallerTable(df, frame))

\* update_graph1 of the layout with the group dropdown "geo"
spend_update_graph1_group(df, date_col, group_col, touchpoint, activity, plot_type, geo, start_date, end_date) ==
    LET sel == BooleanIndex(df, SpendCallbackMask(df, date_col, touchpoint, activity,
                                                  start_date, end_date))
        grouped ==
            IF geo = "all_values"
            THEN GroupBySum(sel.rows, SpendKeys(date_col))
            ELSE GroupBySum(BooleanIndex(sel.rows, EqMask(sel.rows, group_col, geo)).rows,
                            SpendKeys(date_col))
        frame == AssignCostPerAct(NewFrame(grouped))
    IN  Result(frame.rows, <<>>, FigureOf(plot_type), df)

SpendCallback(df, a) ==
    IF a.group_col = None
    THEN spend_update_graph1(df, "date", a.touchpoint, a.activity, a.plot_type,
                             a.start_date, a.end_date)
    ELSE spend_update_graph1_group(df, "date", a.group_col, a.touchpoint, a.activity,
                                   a.plot_type, a.geo, a.start_date, a.end_date)

Widgets(kind, group_col, touchpoint, activity, plot_type, geo, start_date, end_date, is_log, copy) ==
    [kind |-> kind, group_col |-> group_col, touchpoint |-> touchpoint,
     activity |-> activity, plot_type |-> plot_type, geo |-> geo,
     start_date |-> start_date, end_date |-> end_date, is_log |-> is_log, data |-> copy]

Launched(a, r) == [app |-> a, result |-> r]

\* The layout is built, the server started, and Dash fires the callback once with
\* the widgets' initial values.
get_spend_vs_activity_plot_interact(df, date_col, group_col) ==
    IF Len(df) = 0
    THEN Launched(NoApp, Result(<<>>, <<>>, "IndexError", df))
    ELSE IF group_col # None /\ KeyError(group_col)
    THEN Launched(NoApp, Result(<<>>, <<>>, "KeyError", df))
    ELSE LET a == Widgets("spend_vs_activity", group_col,
                          Unique(Column(df, "variable_description"))[1],
                          Unique(Column(df, "activity_type"))[1],
                          "Time Series",
                          IF group_col = None THEN None ELSE "all_values",
                          SeriesMin(Column(df, date_col)),
                          SeriesMax(Column(df, date_col)), FALSE, <<>>)
         IN  Launched(a, SpendCallback(df, a))

\* The days the date picker lets the user pick.
AllowedDates(df, date_col) ==
    LET lo == SeriesMin(Column(df, date_col))
        hi == SeriesMax(Column(df, date_col))
    IN  {Num(d) : d \in lo.n..hi.n}

GroupOptions(df, group_col) == {"all_values"} \cup Elems(Column(df, group_col))

----------------------------------------------------------------------------
(* get_quarterly_spends_plot_interact *)

\* update_graph1 of the layout without a group dropdown
quarterly_update_graph1(df, touchpoint) ==
    Result(BooleanIndex(df, EqMask(df, "variable_description", touchpoint)).rows,
           <<>>, "fig", df)

\* update_graph1 of the layout with the group dropdown "geo"
quarterly_update_graph1_group(df, group_col, touchpoint, geo) ==
    LET sel == BooleanIndex(df, EqMask(df, "variable_description", touchpoint))
    IN  IF geo = "all_values"
        THEN Result(GroupBySum(sel.rows, <<"YEAR_QTR">>), <<>>, "fig", df)
        ELSE Result(GroupBySum(BooleanIndex(sel.rows, EqMask(sel.rows, group_col, geo)).rows,
                               <<"YEAR_QTR">>), <<>>, "fig", df)

QuarterlyCallback(df, a) ==
    IF a.group_col = None
    THEN quarterly_update_graph1(df, a.touchpoint)
    ELSE quarterly_update_graph1_group(df, a.group_col, a.touchpoint, a.geo)

get_quarterly_spends_plot_interact(df, group_col) ==
    IF Len(df) = 0
    THEN Launched(NoApp, Result(<<>>, <<>>, "IndexError", df))
    ELSE IF group_col # None /\ KeyError(group_col)
    THEN Launched(NoApp, Result(<<>>, <<>>, "KeyError", df))
    ELSE LET a == Widgets("quarterly_spends", group_col,
                          Unique(Column(df, "variable_description"))[1], None, None,
                          IF group_col = None THEN None ELSE "all_values",
                          None, None, FALSE, <<>>)
         IN  Launched(a, QuarterlyCallback(df, a))

----------------------------------------------------------------------------
(* get_actual_vs_predicted_plot_interact *)

\* update_figure summing by date for a single group as well.
update_figure_summed(copy, date_col, group_col, selected_g) ==
    IF selected_g = "select_all"
    THEN GroupBySum(copy, <<date_col>>)
    ELSE GroupBySum(BooleanIndex(copy, EqMask(copy, group_col, selected_g)).rows,
                    <<date_col>>)

\* update_figure reads the copy made when the dashboard was built.
update_figure(copy, date_col, group_col, selected_g) ==
    IF selected_g = "select_all"
    THEN GroupBySum(copy, <<date_col>>)
    ELSE BooleanIndex(copy, EqMask(copy, group_col, selected_g)).rows

get_actual_vs_predicted_plot_interact(df, date_col, group_col, is_log) ==
    LET copy == DataFrameCopy(df)
        frame == IF is_log THEN AssignExp(copy) ELSE copy
        caller == CallerTable(df, frame)
    IN  IF KeyError(group_col)
        THEN Launched(NoApp, Result(<<>>, <<>>, "KeyError", caller))
        ELSE LET a == Widgets("actual_vs_predicted", group_col, None, None, None,
                              "select_all", None, None, is_log, frame.rows)
             IN  Launched(a, Result(update_figure(a.data, date_col, group_col, a.geo),
                                    <<>>, "fig", caller))

----------------------------------------------------------------------------
(* Actions *)

Init ==
    /\ schema \in {"spend_activity", "quarterly_spend", "act_vs_preds"}
    /\ data \in Tables(CASE schema = "spend_activity" -> SpendRows
                         [] schema = "quarterly_spend" -> QuarterlyRows
                         [] schema = "act_vs_preds" -> ActVsPredsRows)
    /\ original = data
    /\ app = NoApp
    /\ call = NoCall
    /\ temp = <<>>
    /\ printed = <<>>
    /\ outcome = None

Finish(r) ==
    /\ temp' = r.temp
    /\ printed' = r.printed
    /\ outcome' = r.outcome
    /\ data' = r.data

Called(fn, vd, at, dr, g, is_log) ==
    [fn |-> fn, variable_description |-> vd, activity_type |-> at, date_range |-> dr,
     group_col |-> g.group_col, group_value |-> g.group_value, is_log |-> is_log,
     run |-> 1]

\* The static-plot function c.fn applied to the table df with c's arguments.
RunCall(c, df) ==
    CASE c.fn = "get_spend_vs_activity_plot" ->
            get_spend_vs_activity_plot(df, c.variable_description, c.activity_type,
                                       c.date_range, "date", c.group_col, c.group_value)
      [] c.fn = "get_quarterly_spends_plot" ->
            get_quarterly_spends_plot(df, c.group_col, c.variable_description,
                                      c.group_value)
      [] c.fn = "get_actual_vs_predicted_plot" ->
            get_actual_vs_predicted_plot(df, "date", c.is_log, c.group_col, c.group_value)

CallSpendVsActivityPlot ==
    /\ schema = "spend_activity"
    /\ call = NoCall
    /\ app = NoApp
    /\ \E vd \in RequestedVariables, at \in RequestedActivities,
          dr \in DateRanges, g \in GroupArgs :
          /\ call' = Called("get_spend_vs_activity_plot", vd, at, dr, g, FALSE)
          /\ Finish(RunCall(call', data))
    /\ UNCHANGED <<schema, original, app>>

CallQuarterlySpendsPlot ==
    /\ schema = "quarterly_spend"
    /\ call = NoCall
    /\ app = NoApp
    /\ \E vd \in RequestedSpendVariables, g \in GroupArgs :
          /\ call' = Called("get_quarterly_spends_plot", vd, None, <<>>, g, FALSE)
          /\ Finish(RunCall(call', data))
    /\ UNCHANGED <<schema, original, app>>

CallActualVsPredictedPlot ==
    /\ schema = "act_vs_preds"
    /\ call = NoCall
    /\ app = NoApp
    /\ \E is_log \in IsLogs, g \in GroupArgs :
          /\ call' = Called("get_actual_vs_predicted_plot", None, None, <<>>, g, is_log)
          /\ Finish(RunCall(call', data))
    /\ UNCHANGED <<schema, original, app>>

\* The caller runs the same cell again: the same function with the same arguments.
Rerun ==
    /\ call # NoCall
    /\ call.run = 1
    /\ call' = [call EXCEPT !.run = 2]
    /\ Finish(RunCall(call, data))
    /\ UNCHANGED <<schema, original, app>>

\* The call has returned: its working table and its figure are the caller's to drop.
Return ==
    /\ call # NoCall
    /\ call' = NoCall
    /\ temp' = <<>>
    /\ printed' = <<>>
    /\ outcome' = None
    /\ UNCHANGED <<schema, original, data, app>>

Launch(l) ==
    /\ app' = l.app
    /\ Finish(l.result)
    /\ UNCHANGED <<schema, original, call>>

LaunchSpendVsActivity ==
    /\ schema = "spend_activity"
    /\ call = NoCall
    /\ app = NoApp
    \* the date picker starts from the table's first and last day
    /\ Len(data) > 0 => IsNum(SeriesMin(Column(data, "date")))
    /\ \E group_col \in LaunchGroupCols :
          Launch(get_spend_vs_activity_plot_interact(data, "date", group_col))

LaunchQuarterlySpends ==
    /\ schema = "quarterly_spend"
    /\ call = NoCall
    /\ app = NoApp
    /\ \E group_col \in LaunchGroupCols :
          Launch(get_quarterly_spends_plot_interact(data, group_col))

LaunchActualVsPredicted ==
    /\ schema = "act_vs_preds"
    /\ call = NoCall
    /\ app = NoApp
    /\ \E group_col \in LaunchGroupCols \ {None}, is_log \in IsLogs :
          Launch(get_actual_vs_predicted_plot_interact(data, "date", group_col, is_log))

\* The values a widget offers, fixed when the layout was built.
SpendWidgetOptions(w) ==
    CASE w = "touchpoint" -> Elems(Column(original, "variable_description"))
      [] w = "activity" -> Elems(Column(original, "activity_type"))
      [] w = "plot_type" -> PlotTypes
      [] w = "geo" -> GroupOptions(original, app.group_col)
      [] w = "start_date" -> AllowedDates(original, "date")
      [] w = "end_date" -> AllowedDates(original, "date")

\* A widget of the spend-versus-activity dashboard changes and update_graph1 fires
\* with the widgets' current values.
SpendUpdateGraph1 ==
    /\ app.kind = "spend_vs_activity"
    /\ \E w \in {"touchpoint", "activity", "plot_type", "start_date", "end_date"}
                   \cup (IF app.group_col = None THEN {} ELSE {"geo"}) :
          \E v \in SpendWidgetOptions(w) \ {app[w]} :
             /\ app' = [app EXCEPT ![w] = v]
             /\ Finish(SpendCallback(data, app'))
    /\ UNCHANGED <<schema, original, call>>

QuarterlyWidgetOptions(w) ==
    CASE w = "touchpoint" -> Elems(Column(original, "variable_description"))
      [] w = "geo" -> GroupOptions(original, app.group_col)

QuarterlyUpdateGraph1 ==
    /\ app.kind = "quarterly_spends"
    /\ \E w \in {"touchpoint"} \cup (IF app.group_col = None THEN {} ELSE {"geo"}) :
          \E v \in QuarterlyWidgetOptions(w) \ {app[w]} :
             /\ app' = [app EXCEPT ![w] = v]
             /\ Finish(QuarterlyCallback(data, app'))
    /\ UNCHANGED <<schema, original, call>>

UpdateFigure ==
    /\ app.kind = "actual_vs_predicted"
    /\ \E v \in ({"select_all"} \cup Elems(Column(app.data, app.group_col))) \ {app.geo} :
          /\ app' = [app EXCEPT !.geo = v]
          /\ temp' = update_figure(app.data, "date", app.group_col, v)
          /\ printed' = <<>>
          /\ outcome' = "fig"
    /\ UNCHANGED <<schema, original, data, call>>

Next ==
    \/ CallSpendVsActivityPlot
    \/ CallQuarterlySpendsPlot
    \/ CallActualVsPredictedPlot
    \/ Rerun
    \/ Return
    \/ LaunchSpendVsActivity
    \/ LaunchQuarterlySpends
    \/ LaunchActualVsPredicted
    \/ SpendUpdateGraph1
    \/ QuarterlyUpdateGraph1
    \/ UpdateFigure

Spec == Init /\ [][Next]_vars

----------------------------------------------------------------------------
(* get_spend_vs_activity_plot on the TV / Impressions table of three days *)

\* Longest table built from the rows of the example.
ExampleLen == 3

ExampleTable ==
    << SpendRow(Num(1), "tv_impressions", "TV", "Impressions", "N", Num(100), Num(10)),
       SpendRow(Num(2), "tv_impressions", "TV", "Impressions", "N", Num(0), Num(0)),
       SpendRow(Num(3), "tv_impressions", "TV", "Impressions", "N", Num(50), Num(0)) >>

ExampleRows ==
    Elems(ExampleTable)
        \cup {SpendRow(Num(2), "radio_clicks", "Radio", "Clicks", "N", Num(9), Num(3))}

ExampleTables == UNION {[1..n -> ExampleRows] : n \in 0..ExampleLen}

ExampleVariables == {"TV", "tv", "Radio"}
ExampleActivities == {"Impressions", "impressions", "Clicks"}
ExampleDateRanges == {<<>>, <<Num(2), Num(3)>>}

ExampleInit ==
    /\ schema = "spend_activity"
    /\ data \in ExampleTables
    /\ original = data
    /\ app = NoApp
    /\ call = NoCall
    /\ temp = <<>>
    /\ printed = <<>>
    /\ outcome = None

\* get_spend_vs_activity_plot called with no group column and no group value.
CallOnExample ==
    /\ call = NoCall
    /\ app = NoApp
    /\ \E vd \in ExampleVariables, at \in ExampleActivities, dr \in ExampleDateRanges :
          /\ call' = Called("get_spend_vs_activity_plot", vd, at, dr,
                            [group_col |-> None, group_value |-> None], FALSE)
          /\ Finish(RunCall(call', data))
    /\ UNCHANGED <<schema, original, app>>

ExampleNext ==
    \/ CallOnExample
    \/ Return

ExampleSpec == ExampleInit /\ [][ExampleNext]_vars

----------------------------------------------------------------------------
(* What the claims are stated with *)

SVA == "get_spend_vs_activity_plot"
QSP == "get_quarterly_spends_plot"
AVP == "get_actual_vs_predicted_plot"

\* A row of a working table without the derived column.
Strip(row) == [c \in DOMAIN row \ {"cost_per_act"} |-> row[c]]

\* t holds exactly the rows of df at the indices K, in df's order.
IsFilter(t, df, K) ==
    /\ Len(t) = Cardinality(K)
    /\ \A i \in K : Strip(t[Cardinality({k \in K : k <= i})]) = df[i]

OrZero(x) == IF IsNum(x) THEN x ELSE Num(0)

\* The sum of column c over the rows of df at the indices S, a missing value adding nothing.
RECURSIVE Total(_, _, _)
Total(df, c, S) ==
    IF S = {} THEN Num(0)
    ELSE LET i == CHOOSE i \in S : TRUE
         IN  Plus(OrZero(df[i][c]), Total(df, c, S \ {i}))

KeyPresent(row, keys) ==
    \A n \in 1..Len(keys) : keys[n] \in DateColumns => row[keys[n]] # NaT

\* t has exactly one row per distinct key among the rows of df at the indices F, and
\* each numeric column of a row of t is the sum of that column over those rows.
IsAggregate(t, df, F, keys) ==
    LET K == {i \in F : KeyPresent(df[i], keys)}
        Group(key) == {i \in K : KeyOf(df[i], keys) = key}
    IN  /\ Len(t) = Cardinality({KeyOf(df[i], keys) : i \in K})
        /\ {KeyOf(t[j], keys) : j \in 1..Len(t)} = {KeyOf(df[i], keys) : i \in K}
        /\ \A j \in 1..Len(t) : \A c \in DOMAIN t[j] \cap NumericColumns :
              t[j][c] = Total(df, c, Group(KeyOf(t[j], keys)))

SameText(a, b) == Lower(a) = Lower(b)

HasVariable(df, vd) == \E i \in 1..Len(df) : SameText(df[i].variable_description, vd)

HasActivity(df, vd, at) ==
    \E i \in 1..Len(df) : /\ SameText(df[i].variable_description, vd)
                          /\ SameText(df[i].activity_type, at)

\* s lists the members of S, each once.
Lists(s, S) == Elems(s) = S /\ Len(s) = Cardinality(S)

\* The date bounds of the static spend-versus-activity call c on df.
LowDate(c, df) ==
    IF c.date_range = <<>> THEN SeriesMin(Column(df, "date")) ELSE c.date_range[1]
HighDate(c, df) ==
    IF c.date_range = <<>> THEN SeriesMax(Column(df, "date")) ELSE c.date_range[2]

InDates(row, lo, hi) ==
    /\ row.date # NaT /\ lo # NaT /\ hi # NaT
    /\ lo.n <= row.date.n /\ row.date.n <= hi.n

\* The static call c passed both validations and found its group column.
Charted(fn) == call.fn = fn /\ outcome = "fig"

----------------------------------------------------------------------------
(* C1 *)

\* C1 as stated: a requested variable_description or activity_type that is not among
\* the distinct values of its column (ignoring case) is reported together with the
\* full list of that column's distinct values, and the call returns None with no
\* working table.
C1_ReportsFullColumn ==
    /\ (call.fn \in {SVA, QSP} /\ ~HasVariable(data, call.variable_description))
         => /\ printed[1] = NotAvailableHeader(call.variable_description)
            /\ Lists(Tail(printed), Elems(Column(data, "variable_description")))
            /\ outcome = "None" /\ temp = <<>>
    /\ (/\ call.fn = SVA /\ HasVariable(data, call.variable_description)
        /\ \A i \in 1..Len(data) : ~SameText(data[i].activity_type, call.activity_type))
         => /\ printed[1] = NotAvailableHeader(call.activity_type)
            /\ Lists(Tail(printed), Elems(Column(data, "activity_type")))
            /\ outcome = "None" /\ temp = <<>>

\* C1, amended: an unknown variable_description is reported with the distinct values
\* of its column; an activity_type that no row of the requested variable carries is
\* reported with the distinct activity types of the rows of that variable only; in
\* both cases the call returns None and builds no working table.
C1_ReportsInvalidSelector ==
    /\ (call.fn \in {SVA, QSP} /\ ~HasVariable(data, call.variable_description))
         => /\ printed[1] = NotAvailableHeader(call.variable_description)
            /\ Lists(Tail(printed), Elems(Column(data, "variable_description")))
            /\ outcome = "None" /\ temp = <<>>
    /\ (/\ call.fn = SVA /\ HasVariable(data, call.variable_description)
        /\ ~HasActivity(data, call.variable_description, call.activity_type))
         => /\ printed[1] = NotAvailableHeader(call.activity_type)
            /\ Lists(Tail(printed),
                     {data[i].activity_type : i \in
                        {i \in 1..Len(data) :
                           SameText(data[i].variable_description, call.variable_description)}})
            /\ outcome = "None" /\ temp = <<>>

\* An activity type is refused although another variable of the table carries it.
C1_Witness ==
    /\ call.fn = SVA /\ outcome = "None"
    /\ HasVariable(data, call.variable_description)
    /\ ~HasActivity(data, call.variable_description, call.activity_type)
    /\ \E i \in 1..Len(data) : SameText(data[i].activity_type, call.activity_type)
    /\ Len(printed) = 2

----------------------------------------------------------------------------
(* C2 *)

SvaRowFilter(row) ==
    /\ SameText(row.variable_description, call.variable_description)
    /\ SameText(row.activity_type, call.activity_type)
    /\ InDates(row, LowDate(call, data), HighDate(call, data))
    /\ call.group_value # None => row[call.group_col] = call.group_value

\* C2: the working table of get_spend_vs_activity_plot is exactly the rows of the
\* input that match the variable and the activity ignoring case, lie within the
\* inclusive date bounds and, when a group value is given, carry exactly that value
\* in the group column.
C2_RowFilterExact ==
    Charted(SVA) => IsFilter(temp, data, {i \in DOMAIN data : SvaRowFilter(data[i])})

\* A call with a group value that keeps one row and drops another.
C2_Witness ==
    /\ Charted(SVA) /\ call.group_value # None /\ call.date_range # <<>>
    /\ Len(temp) = 1 /\ Len(data) = 2

----------------------------------------------------------------------------
(* C3 *)

HasDerived == Charted(SVA) \/ app.kind = "spend_vs_activity"

\* C3: in every working table with the derived column, cost_per_act is a finite
\* number; it is 0 where Activity is zero or Spend or Activity is missing, and
\* Spend / Activity everywhere else.
C3_CostPerActivity ==
    HasDerived =>
        \A j \in 1..Len(temp) :
            LET s == temp[j].Spend
                a == temp[j].Activity
                c == temp[j].cost_per_act
            IN  /\ IsNum(c)
                /\ IF ~IsNum(s) \/ ~IsNum(a) \/ a.n = 0
                   THEN c.n = 0
                   ELSE c.n * a.n * s.d = s.n * a.d * c.d

\* The group callback derives 0 for a negative spend over no activity.
C3_Witness ==
    /\ app.kind = "spend_vs_activity" /\ app.group_col # None
    /\ \E j \in 1..Len(temp) :
          /\ temp[j].Activity = Num(0) /\ temp[j].Spend.n < 0
          /\ temp[j].cost_per_act = Num(0)

----------------------------------------------------------------------------
(* C4 *)

SpendWidgetFilter(row) ==
    /\ row.variable_description = app.touchpoint
    /\ row.activity_type = app.activity
    /\ InDates(row, app.start_date, app.end_date)
    /\ app.geo # "all_values" => row[app.group_col] = app.geo

QuarterlyWidgetFilter(row) ==
    /\ row.variable_description = app.touchpoint
    /\ app.geo # "all_values" => row[app.group_col] = app.geo

QuarterlyCallFilter(row) ==
    /\ row.variable_description = call.variable_description
    /\ call.group_value # None => row[call.group_col] = call.group_value

\* The table get_actual_vs_predicted_plot works on: the input, exponentiated if is_log.
Transformed(df, is_log) == IF is_log THEN AssignExp(NewFrame(df)).rows ELSE df

\* C4: wherever the pipeline aggregates, the result has one row per distinct key of
\* the filtered table and every numeric column is the sum over the rows of that key.
C4_AggregatesBySum ==
    /\ (app.kind = "spend_vs_activity" /\ app.group_col # None)
         => IsAggregate(temp, data,
                        {i \in DOMAIN data : SpendWidgetFilter(data[i])}, SpendKeys("date"))
    /\ (app.kind = "quarterly_spends" /\ app.group_col # None)
         => IsAggregate(temp, data,
                        {i \in DOMAIN data : QuarterlyWidgetFilter(data[i])}, <<"YEAR_QTR">>)
    /\ Charted(QSP)
         => IsAggregate(temp, data,
                        {i \in DOMAIN data : QuarterlyCallFilter(data[i])}, <<"YEAR_QTR">>)
    /\ (Charted(AVP) /\ call.group_value \in {"all", None})
         => IsAggregate(temp, Transformed(data, call.is_log),
                        DOMAIN Transformed(data, call.is_log), <<"date">>)
    /\ (app.kind = "actual_vs_predicted" /\ app.geo = "select_all")
         => IsAggregate(temp, Transformed(data, app.is_log),
                        DOMAIN Transformed(data, app.is_log), <<"date">>)

\* The spec's example: (Spend=10, Activity=2) and (Spend=5, Activity=3) of one key
\* collapse to (Spend=15, Activity=5).
C4_Witness ==
    /\ app.kind = "spend_vs_activity" /\ app.group_col # None
    /\ Len(data) = 2 /\ Len(temp) = 1
    /\ {data[1].Spend, data[2].Spend} = {Num(10), Num(5)}
    /\ temp[1].Spend = Num(15) /\ temp[1].Activity = Num(5)

----------------------------------------------------------------------------
(* C5 *)

SvaUngrouped(row) ==
    /\ SameText(row.variable_description, call.variable_description)
    /\ SameText(row.activity_type, call.activity_type)
    /\ InDates(row, LowDate(call, data), HighDate(call, data))

SpendWidgetUngrouped(row) ==
    /\ row.variable_description = app.touchpoint
    /\ row.activity_type = app.activity
    /\ InDates(row, app.start_date, app.end_date)

QuarterlyWidgetUngrouped(row) == row.variable_description = app.touchpoint

QuarterlyCallUngrouped(row) == row.variable_description = call.variable_description

\* The dashboards' part of C5, which holds as stated: "all_values" in a group dropdown
\* applies no group filter.
C5_Dashboards ==
    /\ (app.kind = "spend_vs_activity" /\ app.group_col # None /\ app.geo = "all_values")
         => IsAggregate(temp, data,
                        {i \in DOMAIN data : SpendWidgetUngrouped(data[i])}, SpendKeys("date"))
    /\ (app.kind = "quarterly_spends" /\ app.group_col # None /\ app.geo = "all_values")
         => IsAggregate(temp, data,
                        {i \in DOMAIN data : QuarterlyWidgetUngrouped(data[i])}, <<"YEAR_QTR">>)

\* C5 as stated: "all_values" in a dashboard's group dropdown, and "all" or an absent
\* group_value in each static-plot function, apply no group filter.
C5_AllOrNoneEverywhere ==
    /\ C5_Dashboards
    /\ (call.fn = SVA /\ call.group_value \in {"all", None}
        /\ HasActivity(data, call.variable_description, call.activity_type))
         => outcome = "fig" /\ IsFilter(temp, data, {i \in DOMAIN data : SvaUngrouped(data[i])})
    /\ (call.fn = QSP /\ call.group_value \in {"all", None}
        /\ HasVariable(data, call.variable_description))
         => outcome = "fig" /\
                 IsAggregate(temp, data,
                             {i \in DOMAIN data : QuarterlyCallUngrouped(data[i])}, <<"YEAR_QTR">>)
    /\ (call.fn = AVP /\ call.group_value \in {"all", None})
         => /\ outcome = "fig"
            /\ IsAggregate(temp, Transformed(data, call.is_log),
                           DOMAIN Transformed(data, call.is_log), <<"date">>)

\* C5, amended: the sentinel is "all_values" in the group dropdowns of the spend and
\* quarterly dashboards and "select_all" in the actual-vs-predicted dashboard; it is
\* an absent group_value alone in get_spend_vs_activity_plot and
\* get_quarterly_spends_plot, where "all" is a group value like any other; only
\* get_actual_vs_predicted_plot takes "all" as well as an absent group_value.
C5_SentinelPerEntryPoint ==
    /\ C5_Dashboards
    /\ (app.kind = "actual_vs_predicted" /\ app.geo = "select_all")
         => IsAggregate(temp, app.data, DOMAIN app.data, <<"date">>)
    /\ (call.fn = SVA /\ call.group_value = None
        /\ HasActivity(data, call.variable_description, call.activity_type))
         => outcome = "fig" /\ IsFilter(temp, data, {i \in DOMAIN data : SvaUngrouped(data[i])})
    /\ (Charted(SVA) /\ call.group_value = "all") =>
            IsFilter(temp, data, {i \in DOMAIN data : SvaRowFilter(data[i])})
    /\ (call.fn = QSP /\ call.group_value = None
        /\ HasVariable(data, call.variable_description))
         => outcome = "fig" /\
                 IsAggregate(temp, data,
                             {i \in DOMAIN data : QuarterlyCallUngrouped(data[i])}, <<"YEAR_QTR">>)
    /\ (Charted(QSP) /\ call.group_value = "all")
         => IsAggregate(temp, data,
                        {i \in DOMAIN data : QuarterlyCallFilter(data[i])}, <<"YEAR_QTR">>)
    /\ (call.fn = AVP /\ call.group_value \in {"all", None})
         => /\ outcome = "fig"
            /\ IsAggregate(temp, Transformed(data, call.is_log),
                           DOMAIN Transformed(data, call.is_log), <<"date">>)

\* get_actual_vs_predicted_plot is called with "all" on a table of two groups and
\* sums them into one row.
C5_Witness ==
    /\ Charted(AVP) /\ call.group_value = "all"
    /\ Len(data) = 2 /\ data[1].geo # data[2].geo /\ Len(temp) = 1

----------------------------------------------------------------------------
(* C6 *)

QuarterlyIgnoringCase(row) ==
    /\ SameText(row.variable_description, call.variable_description)
    /\ call.group_value # None => row[call.group_col] = call.group_value

\* C6: in every static-plot call that passes validation, get_quarterly_spends_plot
\* included, the rows used are exactly those whose variable_description (and
\* activity_type) equals the requested value ignoring case.
C6_FilterIgnoresCase ==
    /\ Charted(SVA) => IsFilter(temp, data, {i \in DOMAIN data : SvaRowFilter(data[i])})
    /\ Charted(QSP) =>
            IsAggregate(temp, data,
                        {i \in DOMAIN data : QuarterlyIgnoringCase(data[i])}, <<"YEAR_QTR">>)

----------------------------------------------------------------------------
(* C7 *)

\* C7: a static-plot call with a specific group value and a group column that the
\* table does not have (or None) reports the problem and returns None; no exception
\* reaches the caller.
C7_InvalidGroupColumnIsReported ==
    (/\ call.fn \in {SVA, QSP, AVP}
     /\ call.group_col \notin Columns[schema]
     /\ call.group_value # None
     /\ call.fn = AVP => call.group_value # "all")
        => outcome = "None" /\ printed # <<>>

----------------------------------------------------------------------------
(* C8 *)

\* C8: no call of a plotting function and no firing of a dashboard callback changes
\* the caller's Observation Table: its rows, its columns and its values stay as
\* they were.
C8_TableNeverMutated == [][data' = data]_vars

\* An is_log call has exponentiated its working copy and left the caller's table alone.
C8_Witness ==
    /\ Charted(AVP) /\ call.is_log
    /\ \E j \in 1..Len(temp) : temp[j].actuals.e # EmptyBag
    /\ \A i \in 1..Len(data) : data[i].actuals.e = EmptyBag /\ data[i].preds.e = EmptyBag

----------------------------------------------------------------------------
(* C9 *)

\* C9: a static-plot function run again with the same arguments on the same table
\* gives the same working table, the same report and the same outcome.
C9_RerunGivesSameTable ==
    [][Rerun => (temp' = temp /\ printed' = printed /\ outcome' = outcome)]_vars

\* A second run has produced a working table of two rows.
C9_Witness ==
    /\ call.fn \in {SVA, QSP, AVP} /\ call.run = 2
    /\ outcome = "fig" /\ Len(temp) = 2

----------------------------------------------------------------------------
(* C10 *)

SvaButDates(row) ==
    /\ SameText(row.variable_description, call.variable_description)
    /\ SameText(row.activity_type, call.activity_type)
    /\ call.group_value # None => row[call.group_col] = call.group_value

SvaDated(row) == SvaButDates(row) /\ row.date # NaT

\* With a date_range, the rows dated at its start or at its end are in the working table.
C10_BoundsIncluded ==
    (Charted(SVA) /\ call.date_range # <<>>)
        => \A i \in 1..Len(data) :
              (/\ SvaButDates(data[i])
               /\ data[i].date \in {call.date_range[1], call.date_range[2]}
               /\ call.date_range[1].n <= call.date_range[2].n)
                 => \E j \in 1..Len(temp) : Strip(temp[j]) = data[i]

\* C10 as stated: without a date_range the date predicate excludes no row, and with
\* one the rows dated at either bound are included.
C10_DefaultRangeKeepsEveryRow ==
    /\ (Charted(SVA) /\ call.date_range = <<>>) =>
            IsFilter(temp, data, {i \in DOMAIN data : SvaButDates(data[i])})
    /\ C10_BoundsIncluded

\* C10, amended: without a date_range the bounds are the earliest and the latest date
\* present in the date column, so the date predicate excludes no row that has a
\* date, and excludes every row whose date is missing; with a date_range the rows
\* dated at either bound are included.
C10_DefaultRangeKeepsDatedRows ==
    /\ (Charted(SVA) /\ call.date_range = <<>>) =>
            IsFilter(temp, data, {i \in DOMAIN data : SvaDated(data[i])})
    /\ C10_BoundsIncluded

\* No date_range is given and rows of both days are kept.
C10_Witness ==
    /\ Charted(SVA) /\ call.date_range = <<>>
    /\ Len(temp) = 2 /\ temp[1].date # temp[2].date

----------------------------------------------------------------------------
(* C11 *)

\* The rows of t carry distinct keys.
OneRowPerKey(t, keys) ==
    \A j, k \in 1..Len(t) : KeyOf(t[j], keys) = KeyOf(t[k], keys) => j = k

\* t has as many rows as df has at the indices K.
Unaggregated(t, K) == Len(t) = Cardinality(K)

ActVsPredsGroup(df, group_col, group_value) ==
    {i \in DOMAIN df : df[i][group_col] = group_value}

\* C11 as stated: in every entry point that takes a group selector, the sentinel (or
\* an absent group value) gives a table with one row per grouping key, and a
\* specific group gives the filtered rows unaggregated, as many as match.
C11_AggregatesExactlyOnAllGroups ==
    /\ (Charted(SVA) /\ call.group_value = None)
         => OneRowPerKey(temp, SpendKeys("date"))
    /\ (Charted(SVA) /\ call.group_value # None)
         => Unaggregated(temp, {i \in DOMAIN data : SvaRowFilter(data[i])})
    /\ (app.kind = "spend_vs_activity" /\ app.group_col # None)
         => IF app.geo = "all_values"
            THEN OneRowPerKey(temp, SpendKeys("date"))
            ELSE Unaggregated(temp, {i \in DOMAIN data : SpendWidgetFilter(data[i])})
    /\ Charted(QSP)
         => IF call.group_value = None
            THEN OneRowPerKey(temp, <<"YEAR_QTR">>)
            ELSE Unaggregated(temp, {i \in DOMAIN data : QuarterlyCallFilter(data[i])})
    /\ (app.kind = "quarterly_spends" /\ app.group_col # None)
         => IF app.geo = "all_values"
            THEN OneRowPerKey(temp, <<"YEAR_QTR">>)
            ELSE Unaggregated(temp, {i \in DOMAIN data : QuarterlyWidgetFilter(data[i])})
    /\ Charted(AVP)
         => IF call.group_value \in {"all", None}
            THEN OneRowPerKey(temp, <<"date">>)
            ELSE Unaggregated(temp, ActVsPredsGroup(data, call.group_col, call.group_value))
    /\ app.kind = "actual_vs_predicted"
         => IF app.geo = "select_all"
            THEN OneRowPerKey(temp, <<"date">>)
            ELSE Unaggregated(temp, ActVsPredsGroup(app.data, app.group_col, app.geo))

\* C11, amended: whether the pipeline aggregates is fixed by the entry point, except
\* in the actual-vs-predicted functions.  get_spend_vs_activity_plot never
\* aggregates: with or without a group value its table is the filtered rows.  The
\* group callback of the spend dashboard, get_quarterly_spends_plot and the group
\* callback of the quarterly dashboard always aggregate, for a specific group as for
\* all groups.  Only get_actual_vs_predicted_plot and the actual-vs-predicted
\* dashboard aggregate exactly on the all-groups request and give the rows of a
\* specific group unaggregated.
C11_AggregationPerEntryPoint ==
    /\ Charted(SVA)
         => IsFilter(temp, data, {i \in DOMAIN data : SvaRowFilter(data[i])})
    /\ (app.kind = "spend_vs_activity" /\ app.group_col # None)
         => /\ OneRowPerKey(temp, SpendKeys("date"))
            /\ IsAggregate(temp, data,
                           {i \in DOMAIN data : SpendWidgetFilter(data[i])}, SpendKeys("date"))
    /\ Charted(QSP)
         => /\ OneRowPerKey(temp, <<"YEAR_QTR">>)
            /\ IsAggregate(temp, data,
                           {i \in DOMAIN data : QuarterlyCallFilter(data[i])}, <<"YEAR_QTR">>)
    /\ (app.kind = "quarterly_spends" /\ app.group_col # None)
         => /\ OneRowPerKey(temp, <<"YEAR_QTR">>)
            /\ IsAggregate(temp, data,
                           {i \in DOMAIN data : QuarterlyWidgetFilter(data[i])}, <<"YEAR_QTR">>)
    /\ Charted(AVP)
         => IF call.group_value \in {"all", None}
            THEN OneRowPerKey(temp, <<"date">>)
            ELSE IsFilter(temp, Transformed(data, call.is_log),
                          ActVsPredsGroup(data, call.group_col, call.group_value))
    /\ app.kind = "actual_vs_predicted"
         => IF app.geo = "select_all"
            THEN OneRowPerKey(temp, <<"date">>)
            ELSE IsFilter(temp, app.data, ActVsPredsGroup(app.data, app.group_col, app.geo))

\* get_quarterly_spends_plot, asked for one group, sums two rows of that group and
\* quarter into one.
C11_Witness ==
    /\ Charted(QSP) /\ call.group_value = "N"
    /\ Len(data) = 2 /\ data[1] = data[2] /\ data[1].value = Num(10)
    /\ Len(temp) = 1 /\ temp[1].value = Num(20)

----------------------------------------------------------------------------
(* C12 *)

\* C12: on a table whose TV rows are the three Impressions rows of consecutive days
\* with Spend 100, 0, 50 and Activity 10, 0, 0, get_spend_vs_activity_plot asked for
\* TV and Impressions with no date_range and no group value passes validation,
\* keeps exactly those three rows in date order and derives cost_per_act 10, 0, 0.
C12_EndToEndExample ==
    (/\ call.fn = SVA
     /\ SelectSeq(data, LAMBDA r : r.variable_description = "TV") = ExampleTable
     /\ call.variable_description = "TV" /\ call.activity_type = "Impressions"
     /\ call.date_range = <<>> /\ call.group_value = None)
        => /\ outcome = "fig" /\ printed = <<>>
           /\ Len(temp) = 3
           /\ \A j \in 1..3 : Strip(temp[j]) = ExampleTable[j]
           /\ Column(temp, "cost_per_act") = <<Num(10), Num(0), Num(0)>>

\* The call on the example table has returned the three rows with their costs.
C12_Witness ==
    /\ Charted(SVA) /\ data = ExampleTable
    /\ call.variable_description = "TV" /\ call.activity_type = "Impressions"
    /\ call.date_range = <<>>
    /\ Column(temp, "date") = <<Num(1), Num(2), Num(3)>>
    /\ temp[1].cost_per_act = Num(10) /\ temp[3].cost_per_act = Num(0)

----------------------------------------------------------------------------
(* C13 *)

\* The table the actual-vs-predicted dashboard would chart from the original table.
OriginalChartData == Transformed(original, app.is_log)

\* C13: after any sequence of widget changes, the working table of a dashboard is
\* the one that the current widget values select from the original Observation
\* Table: the rows matching the touchpoint, the activity and the dates (summed by
\* key where the dashboard has a group dropdown), or the rows of the chosen group;
\* nothing of an earlier firing is in it.
C13_FiringsKeepNoState ==
    /\ (app.kind = "spend_vs_activity" /\ app.group_col = None)
         => IsFilter(temp, original,
                     {i \in DOMAIN original : SpendWidgetUngrouped(original[i])})
    /\ (app.kind = "spend_vs_activity" /\ app.group_col # None)
         => IsAggregate(temp, original,
                        {i \in DOMAIN original : SpendWidgetFilter(original[i])},
                        SpendKeys("date"))
    /\ (app.kind = "quarterly_spends" /\ app.group_col = None)
         => IsFilter(temp, original,
                     {i \in DOMAIN original : QuarterlyWidgetUngrouped(original[i])})
    /\ (app.kind = "quarterly_spends" /\ app.group_col # None)
         => IsAggregate(temp, original,
                        {i \in DOMAIN original : QuarterlyWidgetFilter(original[i])},
                        <<"YEAR_QTR">>)
    /\ app.kind = "actual_vs_predicted"
         => IF app.geo = "select_all"
            THEN IsAggregate(temp, OriginalChartData, DOMAIN OriginalChartData, <<"date">>)
            ELSE IsFilter(temp, OriginalChartData,
                          ActVsPredsGroup(OriginalChartData, app.group_col, app.geo))

\* Two widgets of the spend dashboard have left their first values, so there were
\* two firings since the first; the one in between selected no row (no row of the
\* table is Radio with Imp or TV with Clicks), and this one charts the Radio row.
C13_Witness ==
    /\ app.kind = "spend_vs_activity" /\ app.group_col = None
    /\ Len(original) = 2
    /\ original[1].variable_description = "TV" /\ original[1].activity_type = "Imp"
    /\ original[2].variable_description = "Radio"
    /\ app.touchpoint = "Radio" /\ app.activity = "Clicks"
    /\ Len(temp) = 1 /\ Strip(temp[1]) = original[2]

----------------------------------------------------------------------------
(* C14 *)

EveryRowDated == \A i \in 1..Len(data) : data[i].date # NaT

\* C14: get_spend_vs_activity_plot validates the variable first and the activity
\* against the rows of that variable only; so a call that passes both validations
\* with no date_range and no group value, on a table where every row has a date,
\* has a working table that is not empty, a row of it carrying the requested
\* variable and the requested activity.
C14_ValidatedCallKeepsARow ==
    /\ (call.fn = SVA /\ ~HasVariable(data, call.variable_description))
         => /\ outcome = "None"
            /\ printed[1] = NotAvailableHeader(call.variable_description)
    /\ (call.fn = SVA /\ outcome # "None")
         => HasActivity(data, call.variable_description, call.activity_type)
    /\ (/\ call.fn = SVA /\ outcome # "None"
        /\ call.date_range = <<>> /\ call.group_value = None /\ EveryRowDated)
         => /\ outcome = "fig"
            /\ \E j \in 1..Len(temp) :
                  /\ SameText(temp[j].variable_description, call.variable_description)
                  /\ SameText(temp[j].activity_type, call.activity_type)

\* The requested activity is validated among the rows of TV although the table has
\* a Radio row with another activity, and the TV row is kept.
C14_Witness ==
    /\ Charted(SVA) /\ call.date_range = <<>> /\ call.group_value = None
    /\ EveryRowDated /\ Len(data) = 2 /\ Len(temp) = 1
    /\ \E i \in 1..2 : data[i].variable_description = "Radio"
    /\ temp[1].variable_description = "TV"

====
